---- MODULE Spec2Model ----
(***************************************************************************)
(* The Duffing-oscillator script (src/main.py): the potential V, its       *)
(* derivative dVdx, the vector field deriv, the solver solve_duffing and   *)
(* the driver loop that calls it once and saves the Poincare section.      *)
(*                                                                         *)
(* Python floats are IEEE-754 binary64.  The arithmetic of the script is   *)
(* modelled bit for bit: a float is a sign, a 53-bit significand and a     *)
(* binary exponent, every operation is the exact result rounded to nearest *)
(* (ties to even).  Significands do not fit TLC's integers, so they are    *)
(* kept as little-endian sequences of 15-bit limbs.  Exponent overflow,    *)
(* subnormals, infinities and NaN never arise for the inputs explored and  *)
(* are not represented; the two zeros are identified (Python's == does).   *)
(***************************************************************************)
EXTENDS Integers, Sequences, FiniteSets, TLC

----------------------------------------------------------------------------
(* Natural numbers of any size: little-endian limbs, no high zero limb.    *)

LimbBits == 15
Base == 2^LimbBits

RECURSIVE BNNorm(_)
BNNorm(a) ==
  IF a = <<>> THEN <<>>
  ELSE IF a[Len(a)] = 0 THEN BNNorm(SubSeq(a, 1, Len(a) - 1))
  ELSE a

RECURSIVE BNFromInt(_)
BNFromInt(n) ==
  IF n = 0 THEN <<>> ELSE <<n % Base>> \o BNFromInt(n \div Base)

RECURSIVE BNToInt(_)
BNToInt(a) ==
  IF a = <<>> THEN 0 ELSE Head(a) + Base * BNToInt(Tail(a))

RECURSIVE BNCmpFrom(_, _, _)
BNCmpFrom(a, b, i) ==
  IF i = 0 THEN 0
  ELSE IF a[i] < b[i] THEN -1
  ELSE IF a[i] > b[i] THEN 1
  ELSE BNCmpFrom(a, b, i - 1)

\* -1, 0 or 1 as a < b, a = b, a > b
BNCmp(a, b) ==
  IF Len(a) < Len(b) THEN -1
  ELSE IF Len(a) > Len(b) THEN 1
  ELSE BNCmpFrom(a, b, Len(a))

BNLimb(a, i) == IF i <= Len(a) THEN a[i] ELSE 0

RECURSIVE BNAddFrom(_, _, _, _)
BNAddFrom(a, b, i, carry) ==
  IF i > Len(a) /\ i > Len(b)
  THEN (IF carry = 0 THEN <<>> ELSE <<carry>>)
  ELSE LET s == BNLimb(a, i) + BNLimb(b, i) + carry
       IN  <<s % Base>> \o BNAddFrom(a, b, i + 1, s \div Base)

BNAdd(a, b) == BNAddFrom(a, b, 1, 0)

RECURSIVE BNSubFrom(_, _, _, _)
BNSubFrom(a, b, i, borrow) ==
  IF i > Len(a) THEN <<>>
  ELSE LET d == a[i] - BNLimb(b, i) - borrow
       IN  IF d < 0 THEN <<d + Base>> \o BNSubFrom(a, b, i + 1, 1)
           ELSE <<d>> \o BNSubFrom(a, b, i + 1, 0)

\* a - b, for a >= b
BNSub(a, b) == BNNorm(BNSubFrom(a, b, 1, 0))

RECURSIVE BNMulSmallFrom(_, _, _, _)
BNMulSmallFrom(a, k, i, carry) ==
  IF i > Len(a) THEN (IF carry = 0 THEN <<>> ELSE <<carry>>)
  ELSE LET p == a[i] * k + carry
       IN  <<p % Base>> \o BNMulSmallFrom(a, k, i + 1, p \div Base)

\* a * k, for 0 <= k < Base
BNMulSmall(a, k) == IF k = 0 THEN <<>> ELSE BNMulSmallFrom(a, k, 1, 0)

BNZeros(n) == [i \in 1..n |-> 0]

RECURSIVE BNMulFrom(_, _, _)
BNMulFrom(a, b, j) ==
  IF j > Len(b) THEN <<>>
  ELSE LET part == BNMulSmall(a, b[j])
           here == IF part = <<>> THEN <<>> ELSE BNZeros(j - 1) \o part
       IN  BNAdd(here, BNMulFrom(a, b, j + 1))

BNMul(a, b) == BNMulFrom(a, b, 1)

\* a * 2^k
BNShl(a, k) ==
  IF a = <<>> THEN <<>>
  ELSE BNZeros(k \div LimbBits) \o BNMulSmall(a, 2^(k % LimbBits))

RECURSIVE BNHalfFrom(_, _, _)
BNHalfFrom(a, d, i) ==
  IF i > Len(a) THEN <<>>
  ELSE <<(a[i] \div d) + (BNLimb(a, i + 1) % d) * (Base \div d)>>
       \o BNHalfFrom(a, d, i + 1)

\* floor(a / 2^k)
BNShr(a, k) ==
  IF k \div LimbBits >= Len(a) THEN <<>>
  ELSE BNNorm(BNHalfFrom(SubSeq(a, k \div LimbBits + 1, Len(a)),
                         2^(k % LimbBits), 1))

RECURSIVE IntBitLen(_)
IntBitLen(n) == IF n = 0 THEN 0 ELSE 1 + IntBitLen(n \div 2)

BNBitLen(a) ==
  IF a = <<>> THEN 0 ELSE LimbBits * (Len(a) - 1) + IntBitLen(a[Len(a)])

\* bit i (0 = least significant) of a
BNBit(a, i) ==
  (BNLimb(a, i \div LimbBits + 1) \div 2^(i % LimbBits)) % 2

BNIsOdd(a) == a # <<>> /\ a[1] % 2 = 1

RECURSIVE BNDoubleFrom(_, _, _)
BNDoubleFrom(a, i, carry) ==
  IF i > Len(a) THEN (IF carry = 0 THEN <<>> ELSE <<carry>>)
  ELSE LET d == 2 * a[i] + carry
       IN  <<d % Base>> \o BNDoubleFrom(a, i + 1, d \div Base)

\* 2*a + bit
BNDouble(a, bit) == BNDoubleFrom(a, 1, bit)

\* Binary long division, most significant bit first.  (Len(q2) >= 0 is always
\* true: it makes TLC evaluate the quotient at each step instead of piling up
\* unevaluated doublings.)
RECURSIVE BNDivLoop(_, _, _, _, _)
BNDivLoop(a, b, i, q, r) ==
  IF i < 0 THEN [q |-> q, r |-> r]
  ELSE LET r2 == BNDouble(r, BNBit(a, i))
           q2 == BNDouble(q, 0)
       IN  IF Len(q2) >= 0 /\ BNCmp(r2, b) >= 0
           THEN BNDivLoop(a, b, i - 1, BNDouble(q, 1), BNSub(r2, b))
           ELSE BNDivLoop(a, b, i - 1, q2, r2)

\* [q, r] with a = q*b + r, 0 <= r < b, for b > 0.  The top BitLen(b) - 1 bits
\* of a are below b and start the remainder.
BNDivMod(a, b) ==
  LET na == BNBitLen(a)
      nb == BNBitLen(b)
  IN  IF na < nb THEN [q |-> <<>>, r |-> a]
      ELSE BNDivLoop(a, b, na - nb, <<>>, BNShr(a, na - nb + 1))

----------------------------------------------------------------------------
(* Python float: IEEE-754 binary64, round to nearest, ties to even.        *)
(* [s, m, e] is (-1)^s * m * 2^e; m is zero or has exactly Prec bits.      *)

Prec == 53

FZero == [s |-> 0, m |-> <<>>, e |-> 0]

IsZero(a) == a.m = <<>>

\* The float nearest to (-1)^s * (m + f) * 2^e, where 0 <= f < 1 and f > 0
\* exactly when sticky (then m has more than Prec + 1 bits).
FRound(s, m, e, sticky) ==
  IF m = <<>> THEN FZero
  ELSE LET n == BNBitLen(m)
       IN  IF n <= Prec
           THEN [s |-> s, m |-> BNShl(m, Prec - n), e |-> e - (Prec - n)]
           ELSE LET sh    == n - Prec
                    q     == BNShr(m, sh)
                    rem   == BNSub(m, BNShl(q, sh))
                    c     == BNCmp(rem, BNShl(<<1>>, sh - 1))
                    up    == c > 0 \/ (c = 0 /\ (sticky \/ BNIsOdd(q)))
                    q1    == IF up THEN BNAdd(q, <<1>>) ELSE q
                IN  IF BNBitLen(q1) > Prec
                    THEN [s |-> s, m |-> BNShr(q1, 1), e |-> e + sh + 1]
                    ELSE [s |-> s, m |-> q1, e |-> e + sh]

\* float(n) for a Python int
FFromInt(n) ==
  IF n < 0 THEN FRound(1, BNFromInt(-n), 0, FALSE)
  ELSE FRound(0, BNFromInt(n), 0, FALSE)

FNeg(a) == IF IsZero(a) THEN a ELSE [a EXCEPT !.s = 1 - a.s]

\* a / b for b # 0 (b = 0 raises ZeroDivisionError in the caller)
FDiv(a, b) ==
  IF IsZero(a) THEN FZero
  ELSE LET d == BNDivMod(BNShl(a.m, Prec + 2), b.m)
       IN  FRound((a.s + b.s) % 2, d.q, a.e - b.e - (Prec + 2), d.r # <<>>)

\* a * b
FMul(a, b) ==
  IF IsZero(a) \/ IsZero(b) THEN FZero
  ELSE FRound((a.s + b.s) % 2, BNMul(a.m, b.m), a.e + b.e, FALSE)

\* math.pow / ** with exponent 2 or 3: the exact power rounded once
FPow(a, k) ==
  IF IsZero(a) THEN FZero
  ELSE IF k = 2 THEN FRound(0, BNMul(a.m, a.m), 2 * a.e, FALSE)
  ELSE FRound(a.s, BNMul(BNMul(a.m, a.m), a.m), 3 * a.e, FALSE)

\* the significands of a and b over their common (smaller) exponent
FAlign(a, b) ==
  LET e == IF a.e < b.e THEN a.e ELSE b.e
  IN  [a |-> BNShl(a.m, a.e - e), b |-> BNShl(b.m, b.e - e), e |-> e]

\* -1, 0, 1 as |a| < |b|, |a| = |b|, |a| > |b|
FCmpAbs(a, b) ==
  IF IsZero(a) THEN (IF IsZero(b) THEN 0 ELSE -1)
  ELSE IF IsZero(b) THEN 1
  ELSE LET al == FAlign(a, b) IN BNCmp(al.a, al.b)

\* -1, 0, 1 as a < b, a == b, a > b
FCmp(a, b) ==
  IF IsZero(a) /\ IsZero(b) THEN 0
  ELSE IF IsZero(a) THEN (IF b.s = 1 THEN 1 ELSE -1)
  ELSE IF IsZero(b) THEN (IF a.s = 1 THEN -1 ELSE 1)
  ELSE IF a.s # b.s THEN (IF a.s = 1 THEN -1 ELSE 1)
  ELSE IF a.s = 0 THEN FCmpAbs(a, b) ELSE 0 - FCmpAbs(a, b)

FLt(a, b) == FCmp(a, b) < 0
FLe(a, b) == FCmp(a, b) <= 0
FEq(a, b) == FCmp(a, b) = 0

\* a + b
FAdd(a, b) ==
  IF IsZero(a) THEN b
  ELSE IF IsZero(b) THEN a
  ELSE LET al == FAlign(a, b)
           c  == BNCmp(al.a, al.b)
       IN  IF a.s = b.s THEN FRound(a.s, BNAdd(al.a, al.b), al.e, FALSE)
           ELSE IF c = 0 THEN FZero
           ELSE IF c > 0 THEN FRound(a.s, BNSub(al.a, al.b), al.e, FALSE)
           ELSE FRound(b.s, BNSub(al.b, al.a), al.e, FALSE)

\* a - b
FSub(a, b) == FAdd(a, FNeg(b))

\* int(a): truncation towards zero
FTrunc(a) ==
  IF IsZero(a) THEN 0
  ELSE LET mag == IF a.e >= 0 THEN BNToInt(BNShl(a.m, a.e))
                  ELSE BNToInt(BNShr(a.m, 0 - a.e))
       IN  IF a.s = 1 THEN 0 - mag ELSE mag

IsIntegral(a) == FEq(FFromInt(FTrunc(a)), a)

\* math.ceil(a), as np.arange takes it to size the array
FCeil(a) ==
  IF IsIntegral(a) \/ a.s = 1 THEN FTrunc(a) ELSE FTrunc(a) + 1

\* a decimal literal with few digits, e.g. 1.4 is Dec(14, 10): the float
\* nearest to p/q
Dec(p, q) == FDiv(FFromInt(p), FFromInt(q))

\* np.pi = 3.141592653589793 = 0x1921FB54442D18 * 2^-51
Pi == [s |-> 0, m |-> <<11544, 10376, 2029, 201>>, e |-> -51]

FAbs(a) == [a EXCEPT !.s = 0]

----------------------------------------------------------------------------
(* The equation of motion, lines 35-43.                                    *)

Half == Dec(1, 2)
One  == FFromInt(1)

\* V = lambda x: 0.5 * x**2 * (0.5 * x**2 - 1)
V(x) == FMul(FMul(Half, FPow(x, 2)), FSub(FMul(Half, FPow(x, 2)), One))

\* a variant of dVdx that is not odd: the square in place of the cube
dVdxSquare(x) == FSub(FPow(x, 2), x)
\* dVdx = lambda x: x**3 - x
dVdx(x) == FSub(FPow(x, 3), x)

\* The values np.cos(omega*t) may take: cos(0) is 1; otherwise the cosine is
\* some number of [-1, 1], of which these stand for the whole range.
CosSamples == {FFromInt(-1), FZero, One}
CosOf(omega, t) == IF IsZero(FMul(omega, t)) THEN {One} ELSE CosSamples

\* a variant of deriv whose drive ignores the amplitude gamma
derivUndriven(Xr, c, gamma, delta) ==
  [xdot    |-> Xr.xdot,
   xdotdot |-> FAdd(FSub(FNeg(dVdx(Xr.x)), FMul(delta, Xr.xdot)), c)]
\* deriv(X, t, gamma, delta, omega), with c the value of np.cos(omega*t):
\*   x, xdot = X
\*   xdotdot = -dVdx(x) - delta * xdot + gamma * np.cos(omega*t)
\*   return xdot, xdotdot
deriv(Xr, c, gamma, delta) ==
  [xdot    |-> Xr.xdot,
   xdotdot |-> FAdd(FSub(FNeg(dVdx(Xr.x)), FMul(delta, Xr.xdot)),
                    FMul(gamma, c))]

----------------------------------------------------------------------------
(* solve_duffing, lines 45-56, as pure steps.                              *)

TwoPi == FMul(FFromInt(2), Pi)

\* line 48: period = 2*np.pi/omega
PeriodOf(omega) == FDiv(TwoPi, omega)

\* line 49: dt = 2*np.pi/omega / dt_per_period
DtOf(omega, n) == FDiv(FDiv(TwoPi, omega), FFromInt(n))

\* line 50: step = int(period / dt)
StepOf(prd, d) == FTrunc(FDiv(prd, d))

\* a variant of the length that always counts the point at floor(stop/d)
ArangeLenFloor(stop, d) ==
  LET n == FTrunc(FDiv(stop, d)) + 1 IN IF n < 0 THEN 0 ELSE n
\* np.arange(0, stop, d): ceil((stop - 0)/d) points, none when that is <= 0
ArangeLen(stop, d) ==
  LET n == FCeil(FDiv(stop, d)) IN IF n < 0 THEN 0 ELSE n

\* line 51: t = np.arange(0, tmax, dt); point i is 0 + i*dt
Arange(stop, d) ==
  [i \in 1..ArangeLen(stop, d) |-> FMul(FFromInt(i - 1), d)]

\* line 55: idx = int(t_trans / dt)
IdxOf(t_trans, d) == FTrunc(FDiv(t_trans, d))

\* where a[i:] starts, 0-based, for a sequence of n elements
SliceStart(n, i) ==
  IF i < 0 THEN (IF n + i < 0 THEN 0 ELSE n + i)
  ELSE IF i > n THEN n ELSE i

\* a variant of a[i:] that starts one element late
SliceFromNext(a, i) == SubSeq(a, SliceStart(Len(a), i) + 2, Len(a))
\* a[i:]
SliceFrom(a, i) == SubSeq(a, SliceStart(Len(a), i) + 1, Len(a))

----------------------------------------------------------------------------
(* State.                                                                  *)

VARIABLES
  pc,      \* the statement about to run
  args,    \* solve_duffing's parameters
  period, dt, step, t, X0, X, idx,   \* solve_duffing's locals
  ret,     \* what solve_duffing returned: [t, X, dt, step]
  err,     \* the exception that ended the call, "" when none
  script,  \* the driver's names: loop indices, parameters, results, counters
  xgrid,   \* line 37
  Vgrid,   \* line 38, filled element by element
  probe    \* V and dVdx evaluated at a point and at its mirror image

vars == <<pc, args, period, dt, step, t, X0, X, idx, ret, err, script, xgrid,
          Vgrid, probe>>

solverVars == <<args, period, dt, step, t, X0, X, idx, ret, err>>

NoArgs == [tmax |-> FZero, dt_per_period |-> 0, t_trans |-> FZero,
           x0 |-> FZero, v0 |-> FZero, gamma |-> FZero, delta |-> FZero,
           omega |-> FZero]
NoRet == [t |-> <<>>, X |-> <<>>, dt |-> FZero, step |-> 0]
NoScript == [i |-> 0, j |-> 0, k |-> 0, ri |-> <<>>, rj |-> <<>>, rk |-> <<>>,
             params |-> NoArgs, calls |-> 0, bodies |-> 0, saves |-> 0,
             closes |-> 0, dt |-> FZero, pstep |-> 0, nrows |-> 0,
             nsamples |-> 0, solved |-> FALSE]
NoProbe == [x |-> FZero, Vx |-> FZero, Vmx |-> FZero, dx |-> FZero,
            dmx |-> FZero]

----------------------------------------------------------------------------
(* The calls of solve_duffing that are explored.                           *)

MaxPeriods == 3
MaxTrans == 4

Omegas == {FZero, FNeg(Dec(21, 100)), Dec(21, 100), Dec(27, 100)}
DtPerPeriods == {-1, 0, 1, 2, 7}

\* horizons: 10, 30, and a whole number of driving periods
TmaxOf(omega) ==
  {FFromInt(10), FFromInt(30)} \cup
  (IF IsZero(omega) THEN {}
   ELSE {FMul(FFromInt(MaxPeriods), FAbs(PeriodOf(omega)))})

\* transients: none, 10, 40, and the whole horizon
TransOf(tmax) == {FFromInt(0), FFromInt(10), FFromInt(10 * MaxTrans), tmax}

\* at rest on the saddle x = 0, at rest in the well x = 1, driven from rest
AtSaddle == [x0 |-> FZero, v0 |-> FZero, gamma |-> FZero, delta |-> Dec(2, 100)]
InWell   == [x0 |-> One, v0 |-> FZero, gamma |-> FZero, delta |-> Dec(2, 100)]
Driven   == [x0 |-> FZero, v0 |-> FZero, gamma |-> Dec(8, 100), delta |-> Dec(2, 100)]
Kicked   == [x0 |-> FZero, v0 |-> Dec(1, 10), gamma |-> FZero, delta |-> FZero]

\* the moving cases are followed over the short horizon only
MotionsOf(tmax) ==
  IF tmax = FFromInt(10) THEN {AtSaddle, InWell, Driven, Kicked}
  ELSE {AtSaddle, InWell}

ArgSet ==
  UNION { UNION { UNION { {
    [tmax |-> tm, dt_per_period |-> n, t_trans |-> tt,
     x0 |-> mo.x0, v0 |-> mo.v0, gamma |-> mo.gamma, delta |-> mo.delta,
     omega |-> om] : mo \in MotionsOf(tm), n \in DtPerPeriods }
    : tt \in TransOf(tm) } : tm \in TmaxOf(om) } : om \in Omegas }

----------------------------------------------------------------------------
(* solve_duffing, statement by statement.                                  *)

Raise(e) ==
  /\ pc' = "raised"
  /\ err' = e

\* a variant of line 48 in which the division by zero does not raise
Line48Unchecked ==
  /\ pc = "line48"
  /\ period' = (IF IsZero(args.omega) THEN FZero ELSE PeriodOf(args.omega))
  /\ pc' = "line49"
  /\ UNCHANGED <<args, dt, step, t, X0, X, idx, ret, err, script, xgrid, Vgrid, probe>>

\* line 48
Line48 ==
  /\ pc = "line48"
  /\ IF IsZero(args.omega)
     THEN Raise("ZeroDivisionError") /\ UNCHANGED period
     ELSE /\ period' = PeriodOf(args.omega)
          /\ pc' = "line49"
          /\ UNCHANGED err
  /\ UNCHANGED <<args, dt, step, t, X0, X, idx, ret, script, xgrid, Vgrid, probe>>

\* line 49
Line49 ==
  /\ pc = "line49"
  /\ IF args.dt_per_period = 0
     THEN Raise("ZeroDivisionError") /\ UNCHANGED dt
     ELSE /\ dt' = DtOf(args.omega, args.dt_per_period)
          /\ pc' = "line50"
          /\ UNCHANGED err
  /\ UNCHANGED <<args, period, step, t, X0, X, idx, ret, script, xgrid, Vgrid, probe>>

\* line 50
Line50 ==
  /\ pc = "line50"
  /\ step' = StepOf(period, dt)
  /\ pc' = "line51"
  /\ UNCHANGED <<args, period, dt, t, X0, X, idx, ret, err, script, xgrid, Vgrid, probe>>

\* line 51
Line51 ==
  /\ pc = "line51"
  /\ t' = Arange(args.tmax, dt)
  /\ pc' = "line53"
  /\ UNCHANGED <<args, period, dt, step, X0, X, idx, ret, err, script, xgrid, Vgrid, probe>>

\* line 53
Line53 ==
  /\ pc = "line53"
  /\ X0' = [x |-> args.x0, xdot |-> args.v0]
  /\ pc' = "line54"
  /\ UNCHANGED <<args, period, dt, step, t, X, idx, ret, err, script, xgrid, Vgrid, probe>>

\* line 54, odeint(deriv, X0, t, args=(gamma, delta, omega)): the first row is
\* the initial condition at t[0].  odeint does not say what it does with an
\* empty time array: it may fail or hand back no rows.
OdeintBegin ==
  /\ pc = "line54"
  /\ IF t = <<>>
     THEN \/ Raise("odeint") /\ UNCHANGED X
          \/ X' = <<>> /\ pc' = "line55" /\ UNCHANGED err
     ELSE /\ X' = <<[x |-> X0.x, xdot |-> X0.xdot, at |-> t[1]]>>
          /\ pc' = "odeint"
          /\ UNCHANGED err
  /\ UNCHANGED <<args, period, dt, step, t, X0, idx, ret, script, xgrid, Vgrid, probe>>

\* One output row more: the state at the next grid time, advanced along the
\* slope deriv gives (an explicit one-step scheme stands for LSODA).  "at" is
\* the grid time the row belongs to.
OdeintRow(prev, tnext, c, gamma, delta) ==
  LET h == FSub(tnext, prev.at)
      f == deriv(prev, c, gamma, delta)
  IN  [x    |-> FAdd(prev.x, FMul(h, f.xdot)),
       xdot |-> FAdd(prev.xdot, FMul(h, f.xdotdot)),
       at   |-> tnext]

OdeintStep ==
  /\ pc = "odeint"
  /\ Len(X) < Len(t)
  /\ \E c \in CosOf(args.omega, X[Len(X)].at) :
       X' = Append(X, OdeintRow(X[Len(X)], t[Len(X) + 1], c,
                                args.gamma, args.delta))
  /\ UNCHANGED <<pc, args, period, dt, step, t, X0, idx, ret, err, script, xgrid, Vgrid, probe>>

OdeintEnd ==
  /\ pc = "odeint"
  /\ Len(X) = Len(t)
  /\ pc' = "line55"
  /\ UNCHANGED <<args, period, dt, step, t, X0, X, idx, ret, err, script, xgrid, Vgrid, probe>>

\* line 55
Line55 ==
  /\ pc = "line55"
  /\ idx' = IdxOf(args.t_trans, dt)
  /\ pc' = "line56"
  /\ UNCHANGED <<args, period, dt, step, t, X0, X, ret, err, script, xgrid, Vgrid, probe>>

\* line 56: return t[idx:], X[idx:], dt, step
Line56 ==
  /\ pc = "line56"
  /\ ret' = [t |-> SliceFrom(t, idx), X |-> SliceFrom(X, idx), dt |-> dt,
             step |-> step]
  /\ pc' = "returned"
  /\ UNCHANGED <<args, period, dt, step, t, X0, X, idx, err, script, xgrid, Vgrid, probe>>

\* A call of solve_duffing with any of the explored parameters.
Init ==
  /\ pc = "line48"
  /\ args \in ArgSet
  /\ period = FZero /\ dt = FZero /\ step = 0 /\ t = <<>>
  /\ X0 = [x |-> FZero, xdot |-> FZero] /\ X = <<>> /\ idx = 0
  /\ ret = NoRet /\ err = ""
  /\ script = NoScript /\ xgrid = <<>> /\ Vgrid = <<>> /\ probe = NoProbe

Next ==
  \/ Line48 \/ Line49 \/ Line50 \/ Line51 \/ Line53
  \/ OdeintBegin \/ OdeintStep \/ OdeintEnd
  \/ Line55 \/ Line56

Spec == Init /\ [][Next]_vars

----------------------------------------------------------------------------
(* The script: lines 37-38 and the driver loop, lines 60-141.              *)

\* np.linspace(start, stop, num): arange(0, num) * ((stop - start)/(num - 1))
\* + start, the last point set to stop
Linspace(start, stop, num) ==
  LET delta == FDiv(FSub(stop, start), FFromInt(num - 1))
  IN  [i \in 1..num |->
         IF i = num THEN stop
         ELSE FAdd(FMul(FFromInt(i - 1), delta), start)]

\* a variant of range(a, b) that includes b
RangeInclusive(a, b) == [n \in 1..(b - a + 1) |-> a + n - 1]
\* range(a, b)
Range(a, b) == [n \in 1..(b - a) |-> a + n - 1]

\* len(x[::k]) for a sequence of n elements and k > 0
StrideLen(n, k) == (n + k - 1) \div k

\* line 37
Line37 ==
  /\ pc = "line37"
  /\ xgrid' = Linspace(FNeg(Dec(15, 10)), Dec(15, 10), 100)
  /\ pc' = "line38"
  /\ UNCHANGED <<solverVars, script, Vgrid, probe>>

\* line 38, Vgrid = V(xgrid): V at each point of xgrid in turn
Line38 ==
  /\ pc = "line38"
  /\ Len(Vgrid) < Len(xgrid)
  /\ Vgrid' = Append(Vgrid, V(xgrid[Len(Vgrid) + 1]))
  /\ UNCHANGED <<pc, solverVars, script, xgrid, probe>>

Line38End ==
  /\ pc = "line38"
  /\ Len(Vgrid) = Len(xgrid)
  /\ pc' = "line60"
  /\ UNCHANGED <<solverVars, script, xgrid, Vgrid, probe>>

\* line 60: for i in range(1,2)
Line60 ==
  /\ pc = "line60"
  /\ script' = [script EXCEPT !.ri = Range(1, 2)]
  /\ pc' = "for_i"
  /\ UNCHANGED <<solverVars, xgrid, Vgrid, probe>>

ForI ==
  /\ pc = "for_i"
  /\ IF script.ri = <<>>
     THEN pc' = "end" /\ UNCHANGED script
     ELSE /\ script' = [script EXCEPT !.i = Head(script.ri),
                                      !.ri = Tail(script.ri)]
          /\ pc' = "line61"
  /\ UNCHANGED <<solverVars, xgrid, Vgrid, probe>>

\* line 61: for j in range(1,2)
Line61 ==
  /\ pc = "line61"
  /\ script' = [script EXCEPT !.rj = Range(1, 2)]
  /\ pc' = "for_j"
  /\ UNCHANGED <<solverVars, xgrid, Vgrid, probe>>

ForJ ==
  /\ pc = "for_j"
  /\ IF script.rj = <<>>
     THEN pc' = "for_i" /\ UNCHANGED script
     ELSE /\ script' = [script EXCEPT !.j = Head(script.rj),
                                      !.rj = Tail(script.rj)]
          /\ pc' = "line62"
  /\ UNCHANGED <<solverVars, xgrid, Vgrid, probe>>

\* line 62: for k in range(1,2)
Line62 ==
  /\ pc = "line62"
  /\ script' = [script EXCEPT !.rk = Range(1, 2)]
  /\ pc' = "for_k"
  /\ UNCHANGED <<solverVars, xgrid, Vgrid, probe>>

ForK ==
  /\ pc = "for_k"
  /\ IF script.rk = <<>>
     THEN pc' = "for_j" /\ UNCHANGED script
     ELSE /\ script' = [script EXCEPT !.k = Head(script.rk),
                                      !.rk = Tail(script.rk)]
          /\ pc' = "line63"
  /\ UNCHANGED <<solverVars, xgrid, Vgrid, probe>>

\* lines 63-70: the parameters of this pass of the loop body
ParamsOf(i, j, k) ==
  [x0            |-> FFromInt(0),
   v0            |-> FFromInt(0),
   tmax          |-> FFromInt(18000),
   t_trans       |-> FFromInt(300),
   omega         |-> FDiv(FMul(Dec(14, 10), FFromInt(i)), FFromInt(5)),
   gamma         |-> FDiv(FMul(Dec(4, 10), FFromInt(j)), FFromInt(5)),
   delta         |-> FDiv(FMul(Dec(1, 10), FFromInt(k)), FFromInt(5)),
   dt_per_period |-> 100]

Line63 ==
  /\ pc = "line63"
  /\ script' = [script EXCEPT !.params = ParamsOf(script.i, script.j, script.k),
                              !.bodies = @ + 1]
  /\ pc' = "line73"
  /\ UNCHANGED <<solverVars, xgrid, Vgrid, probe>>

\* line 73: t, X, dt, pstep = solve_duffing(...).  The call runs lines 48-56
\* on the script's parameters; of the 80215-point grid and trajectory the
\* script's state keeps the number of rows returned.
Line73 ==
  /\ pc = "line73"
  /\ LET a == script.params
         d == DtOf(a.omega, a.dt_per_period)
         n == ArangeLen(a.tmax, d)
     IN  script' = [script EXCEPT
                      !.calls  = @ + 1,
                      !.solved = TRUE,
                      !.dt     = d,
                      !.pstep  = StepOf(PeriodOf(a.omega), d),
                      !.nrows  = n - SliceStart(n, IdxOf(a.t_trans, d))]
  /\ pc' = "line125"
  /\ UNCHANGED <<solverVars, xgrid, Vgrid, probe>>

\* lines 74-135: x, xdot = X.T and the scatter of x[::pstep], xdot[::pstep]
Line125 ==
  /\ pc = "line125"
  /\ script' = [script EXCEPT !.nsamples = StrideLen(script.nrows, script.pstep)]
  /\ pc' = "line140"
  /\ UNCHANGED <<solverVars, xgrid, Vgrid, probe>>

\* line 140: plt.savefig(...)
Line140 ==
  /\ pc = "line140"
  /\ script' = [script EXCEPT !.saves = @ + 1]
  /\ pc' = "line141"
  /\ UNCHANGED <<solverVars, xgrid, Vgrid, probe>>

\* line 141: plt.close(), and back to the innermost for
Line141 ==
  /\ pc = "line141"
  /\ script' = [script EXCEPT !.closes = @ + 1]
  /\ pc' = "for_k"
  /\ UNCHANGED <<solverVars, xgrid, Vgrid, probe>>

InitScript ==
  /\ pc = "line37"
  /\ args = NoArgs
  /\ period = FZero /\ dt = FZero /\ step = 0 /\ t = <<>>
  /\ X0 = [x |-> FZero, xdot |-> FZero] /\ X = <<>> /\ idx = 0
  /\ ret = NoRet /\ err = ""
  /\ script = NoScript /\ xgrid = <<>> /\ Vgrid = <<>> /\ probe = NoProbe

NextScript ==
  \/ Line37 \/ Line38 \/ Line38End
  \/ Line60 \/ ForI \/ Line61 \/ ForJ \/ Line62 \/ ForK
  \/ Line63 \/ Line73 \/ Line125 \/ Line140 \/ Line141

SpecScript == InitScript /\ [][NextScript]_vars

----------------------------------------------------------------------------
(* V and dVdx at a point and at its mirror image.                          *)

MaxX == 20

\* the points -MaxX/10, ..., MaxX/10
XSet == {Dec(n, 10) : n \in -MaxX..MaxX}

ProbeV ==
  /\ pc = "probe"
  /\ probe' = [probe EXCEPT !.Vx = V(probe.x), !.Vmx = V(FNeg(probe.x))]
  /\ pc' = "probe_V"
  /\ UNCHANGED <<solverVars, script, xgrid, Vgrid>>

ProbeD ==
  /\ pc = "probe_V"
  /\ probe' = [probe EXCEPT !.dx = dVdx(probe.x), !.dmx = dVdx(FNeg(probe.x))]
  /\ pc' = "probe_done"
  /\ UNCHANGED <<solverVars, script, xgrid, Vgrid>>

InitPotential ==
  /\ pc = "probe"
  /\ args = NoArgs
  /\ period = FZero /\ dt = FZero /\ step = 0 /\ t = <<>>
  /\ X0 = [x |-> FZero, xdot |-> FZero] /\ X = <<>> /\ idx = 0
  /\ ret = NoRet /\ err = ""
  /\ script = NoScript /\ xgrid = <<>> /\ Vgrid = <<>>
  /\ \E x \in XSet : probe = [NoProbe EXCEPT !.x = x]

NextPotential == ProbeV \/ ProbeD

SpecPotential == InitPotential /\ [][NextPotential]_vars

----------------------------------------------------------------------------
(* The claims.                                                             *)

Pos(a) == FLt(FZero, a)

\* omega > 0, dt_per_period >= 2, 0 <= t_trans < tmax
ValidCall ==
  /\ Pos(args.omega)
  /\ args.dt_per_period >= 2
  /\ FLe(FZero, args.t_trans)
  /\ FLt(args.t_trans, args.tmax)

AfterLine50 == {"line51", "line53", "line54", "odeint", "line55", "line56",
                "returned"}

\* C1: for a valid call the first returned time is at or after t_trans and
\* less than one spacing dt after it.
C1_TransientSlicing ==
  (pc = "returned" /\ ValidCall) =>
    /\ ret.t # <<>>
    /\ FLe(args.t_trans, ret.t[1])
    /\ FLt(FSub(ret.t[1], args.t_trans), ret.dt)

\* C2: for omega > 0 and dt_per_period >= 2 the stride step, once computed
\* and as returned, equals dt_per_period.
C2_PoincareStride ==
  (pc \in AfterLine50 /\ Pos(args.omega) /\ args.dt_per_period >= 2) =>
    /\ step = args.dt_per_period
    /\ (pc = "returned" => ret.step = args.dt_per_period)

\* C3: for a valid call the returned grid and trajectory are the suffixes from
\* idx of the full grid and the full trajectory: equal lengths, namely
\* len(t) - idx, and row k is the state integrated for returned time k.
C3_LengthAlignment ==
  (pc = "returned" /\ ValidCall) =>
    /\ Len(ret.t) = Len(ret.X)
    /\ Len(ret.t) = Len(t) - idx
    /\ \A n \in 1..Len(ret.t) :
         /\ ret.t[n] = t[idx + n]
         /\ ret.X[n] = X[idx + n]
         /\ ret.X[n].at = ret.t[n]

C3_Witness ==
  pc = "returned" /\ ValidCall /\ idx >= 1 /\ Len(ret.t) >= 2

\* C4: for a valid call, consecutive samples of the returned grid taken with
\* stride step lie one driving period apart.  (Stated with the widest margin
\* the grid allows, half a spacing; the claim itself says exactly.)
C4_PoincareSampling ==
  (pc = "returned" /\ ValidCall) =>
    /\ ret.step >= 1
    /\ \A n \in 1..Len(ret.t) :
         ((n - 1) % ret.step = 0 /\ n + ret.step <= Len(ret.t)) =>
           FLt(FAbs(FSub(FSub(ret.t[n + ret.step], ret.t[n]), period)),
               FMul(Half, ret.dt))

\* omega <= 0, or dt_per_period <= 0, or t_trans >= tmax
InvalidCall ==
  \/ ~Pos(args.omega)
  \/ args.dt_per_period <= 0
  \/ FLe(args.tmax, args.t_trans)

\* C5, as stated: an invalid call is rejected before the time grid is built
\* and before the integrator is invoked, and returns nothing.
C5_FailFast ==
  InvalidCall =>
    /\ pc \in {"line48", "line49", "line50", "line51", "raised"}
    /\ err # "odeint"
    /\ t = <<>> /\ X = <<>> /\ ret = NoRet

DividesByZero == IsZero(args.omega) \/ args.dt_per_period = 0

\* C5, amended: exactly the calls with omega = 0 or dt_per_period = 0 are
\* rejected, by the ZeroDivisionError of line 48 or 49, before the grid is
\* built and the integrator invoked, and they return nothing; no other call
\* ends in that error.
C5_RejectsOnlyDivisionByZero ==
  /\ DividesByZero =>
       /\ pc \in {"line48", "line49", "raised"}
       /\ (pc = "raised" => err = "ZeroDivisionError")
       /\ t = <<>> /\ X = <<>> /\ ret = NoRet
  /\ (pc = "raised" /\ err = "ZeroDivisionError") => DividesByZero

C5_Witness ==
  /\ pc = "raised" /\ err = "ZeroDivisionError"
  /\ Pos(args.omega) /\ args.dt_per_period = 0
  /\ t = <<>>

\* omega > 0, dt_per_period >= 2, t_trans >= tmax > 0
Degenerate ==
  /\ Pos(args.omega)
  /\ args.dt_per_period >= 2
  /\ Pos(args.tmax)
  /\ FLe(args.tmax, args.t_trans)

\* C6, as stated: a call with t_trans >= tmax > 0 is not rejected, integrates
\* over the whole grid and returns an empty grid and an empty trajectory, with
\* dt and step.
C6_DegenerateEmpty ==
  Degenerate =>
    /\ pc # "raised"
    /\ pc = "returned" =>
         /\ Len(X) = Len(t)
         /\ ret.t = <<>> /\ ret.X = <<>>
         /\ ret.dt = dt /\ ret.step = step

AtRest(r) == IsZero(r.x) /\ IsZero(r.xdot)

\* gamma = 0, delta > 0, x0 = v0 = 0
Undriven ==
  /\ IsZero(args.gamma) /\ Pos(args.delta)
  /\ IsZero(args.x0) /\ IsZero(args.v0)

\* C7: with gamma = 0, delta > 0 and x0 = v0 = 0, deriv is (0, 0) at the state
\* (0, 0) whatever the time, and every row integrated and returned is (0, 0).
C7_Equilibrium ==
  Undriven =>
    /\ \A c \in CosSamples :
         deriv([x |-> FZero, xdot |-> FZero], c, args.gamma, args.delta)
           = [xdot |-> FZero, xdotdot |-> FZero]
    /\ \A n \in 1..Len(X) : AtRest(X[n])
    /\ \A n \in 1..Len(ret.X) : AtRest(ret.X[n])

C7_Witness ==
  Undriven /\ pc = "returned" /\ Len(X) >= 3 /\ Len(ret.X) >= 2

\* C8: V(x) == V(-x) and dVdx(-x) == -dVdx(x).
C8_PotentialSymmetry ==
  /\ pc \in {"probe_V", "probe_done"} =>
       /\ probe.Vx = probe.Vmx
       /\ probe.Vx = V(probe.x)
  /\ pc = "probe_done" =>
       /\ probe.dmx = FNeg(probe.dx)
       /\ probe.dx = dVdx(probe.x)

C8_Witness ==
  /\ pc = "probe_done"
  /\ probe.x.s = 1
  /\ ~IsZero(probe.Vx) /\ ~IsZero(probe.dx)
  /\ probe.dx.s = 0 /\ probe.dmx.s = 1

\* omega > 0, dt_per_period >= 1, tmax > 0
GridCall ==
  /\ Pos(args.omega)
  /\ args.dt_per_period >= 1
  /\ Pos(args.tmax)

\* the full grid starts at 0, is point i = i*dt with dt = (2*pi/omega) /
\* dt_per_period, increases strictly and has ceil(tmax/dt) points
GridShape ==
  /\ period = FDiv(TwoPi, args.omega)
  /\ dt = FDiv(period, FFromInt(args.dt_per_period))
  /\ Len(t) = FCeil(FDiv(args.tmax, dt))
  /\ Len(t) >= 1
  /\ t[1] = FZero
  /\ \A n \in 1..Len(t) : t[n] = FMul(FFromInt(n - 1), dt)
  /\ \A n \in 1..(Len(t) - 1) : FLt(t[n], t[n + 1])

\* C9, as stated: the grid has that shape and every time of it is strictly
\* less than tmax.
C9_TimeGrid ==
  (pc = "line53" /\ GridCall) =>
    /\ GridShape
    /\ \A n \in 1..Len(t) : FLt(t[n], args.tmax)

\* C9, amended: the grid has that shape (the quotient tmax/dt taken in floating
\* point), every time but the last is strictly less than tmax, and the last is
\* at most tmax.
C9_TimeGridClosed ==
  (pc = "line53" /\ GridCall) =>
    /\ GridShape
    /\ \A n \in 1..(Len(t) - 1) : FLt(t[n], args.tmax)
    /\ FLe(t[Len(t)], args.tmax)

C9_Witness ==
  /\ pc = "line53" /\ GridCall
  /\ Len(t) >= 2
  /\ FEq(t[Len(t)], args.tmax)

ShippedParams ==
  [x0            |-> FZero,
   v0            |-> FZero,
   tmax          |-> FFromInt(18000),
   t_trans       |-> FFromInt(300),
   omega         |-> FDiv(Dec(14, 10), FFromInt(5)),
   gamma         |-> FDiv(Dec(4, 10), FFromInt(5)),
   delta         |-> FDiv(Dec(1, 10), FFromInt(5)),
   dt_per_period |-> 100]

\* C10: a run of the script passes through the loop body once, with
\* i = j = k = 1, calls solve_duffing once, with the shipped parameters, and
\* saves the figure once, after that call has returned.
C10_SingleIteration ==
  /\ script.bodies <= 1 /\ script.calls <= 1 /\ script.saves <= 1
  /\ script.bodies = 1 => (script.i = 1 /\ script.j = 1 /\ script.k = 1)
  /\ script.calls = 1 => script.params = ShippedParams
  /\ script.saves = 1 => (script.calls = 1 /\ script.solved)
  /\ pc = "end" =>
       (script.bodies = 1 /\ script.calls = 1 /\ script.saves = 1)

C10_Witness ==
  pc = "end" /\ script.calls = 1 /\ script.saves = 1 /\ script.pstep = 100

====
